---- MODULE Spec2Model ----
(***************************************************************************)
(* A model of logging_with_rotation.py: named loggers built by             *)
(* create_rotating_logger, each holding a TimedRotatingFileHandler (and    *)
(* optionally a console StreamHandler), the log directory with its base    *)
(* files and timestamped archives, and the clock that drives rotation.     *)
(*                                                                         *)
(* One call of the program (create_rotating_logger, or an emit through a   *)
(* logger) is one action.  The behaviour of the logging package that the   *)
(* calls of create_rotating_logger select (rollover, retention, handler    *)
(* dispatch, error handling) is modelled at the place of the call.         *)
(*                                                                         *)
(* Conventions of the model:                                               *)
(*   - time is a whole number of seconds since the epoch; local time is    *)
(*     UTC (no daylight-saving change falls inside a run);                 *)
(*   - a calendar date is written as its day number since the epoch, which *)
(*     orders the same way as the zero-padded %Y-%m-%d text;               *)
(*   - a formatted timestamp is the tuple of its fields, one per group of  *)
(*     the format: <<date, hour, minute, second>> for %Y-%m-%d_%H-%M-%S;   *)
(*   - a logger name is the tuple of its dot-separated components;         *)
(*   - a log line is the number of the record it carries.                  *)
(***************************************************************************)
EXTENDS Integers, Sequences, FiniteSets, TLC

VARIABLES
    now,        \* int(time.time())
    loggers,    \* logging's registry: name -> [exists, level, handlers]
    files,      \* base files of the log directory: path -> [exists, lines, mtime]
    archives,   \* rotated files of the log directory: set of [base, ts, lines]
    dirExists,  \* os.path.exists(log_dir)
    console,    \* what was written to sys.stderr, in order (record numbers)
    nrec,       \* number of records emitted so far
    nticks,     \* number of clock steps so far
    last        \* the most recent call and how it ended

vars == <<now, loggers, files, archives, dirExists, console, nrec, nticks, last>>

(***************************************************************************)
(* Bounds of the model.                                                    *)
(***************************************************************************)
MaxRecords == 3
MaxTicks == 3

(***************************************************************************)
(* Program constants.                                                      *)
(***************************************************************************)
INFO == 20
WARNING == 30
SECOND == 1
MINUTE == 60 * SECOND
HOUR == 60 * MINUTE
DAY == 24 * HOUR
WEEK == 7 * DAY

\* The clock when the program starts: 1970-01-08 23:58:00, a Thursday.
StartTime == 8 * DAY - 2 * MINUTE

\* Logger names (dot-separated components) and the log file each is given.
Names == {<<"app">>, <<"app", "db">>}
LogFile(name) == IF name = <<"app">> THEN "app.log" ELSE "db.log"
LogFiles == {LogFile(n) : n \in Names}

\* Rotation timing options: the documented ones, and two that are not
\* ("W7": a weekday outside 0-6; "X": an unknown unit).
WeeklyWhens == {"W0", "W1", "W2", "W3", "W4", "W5", "W6"}
StartsWithW(when) == when \in WeeklyWhens \cup {"W7"}
DayOfWeek(when) ==
    CASE when = "W0" -> 0 [] when = "W1" -> 1 [] when = "W2" -> 2 [] when = "W3" -> 3
      [] when = "W4" -> 4 [] when = "W5" -> 5 [] when = "W6" -> 6 [] OTHER -> -1

\* self.when = when.upper()
Upper(when) == IF when = "midnight" THEN "MIDNIGHT" ELSE when

(***************************************************************************)
(* time.localtime and time.strftime.                                       *)
(***************************************************************************)
localtime(t) ==
    [ date |-> t \div DAY,
      hour |-> (t % DAY) \div HOUR,
      min  |-> (t % HOUR) \div MINUTE,
      sec  |-> t % MINUTE,
      wday |-> ((t \div DAY) + 3) % 7 ]   \* 0 is Monday; day 0 was a Thursday

Directive(d, tt) ==
    CASE d = "%Y-%m-%d" -> tt.date
      [] d = "%H" -> tt.hour
      [] d = "%M" -> tt.min
      [] d = "%S" -> tt.sec

strftime(fmt, tt) == [i \in 1..Len(fmt) |-> Directive(fmt[i], tt)]

\* file_handler.suffix = "%Y-%m-%d_%H-%M-%S"
SuffixSet == <<"%Y-%m-%d", "%H", "%M", "%S">>

\* The suffix and the extMatch pattern TimedRotatingFileHandler picks for `when`
\* (the pattern is anchored: it matches a text with exactly these groups).
DefaultSuffix(when) ==
    CASE when = "S" -> <<"%Y-%m-%d", "%H", "%M", "%S">>
      [] when = "M" -> <<"%Y-%m-%d", "%H", "%M">>
      [] when = "H" -> <<"%Y-%m-%d", "%H">>
      [] OTHER -> <<"%Y-%m-%d">>

extMatch(when, ts) == Len(ts) = Len(DefaultSuffix(when))

\* Lexicographic order of two timestamp texts (result.sort()).
RECURSIVE LexLess(_, _)
LexLess(a, b) ==
    IF a = <<>> THEN b # <<>>
    ELSE IF b = <<>> THEN FALSE
    ELSE IF Head(a) # Head(b) THEN Head(a) < Head(b)
    ELSE LexLess(Tail(a), Tail(b))

(***************************************************************************)
(* TimedRotatingFileHandler, as create_rotating_logger constructs it.      *)
(***************************************************************************)
\* Seconds in one unit of `when` (self.interval before it is multiplied).
UnitSeconds(when) ==
    CASE when = "S" -> SECOND
      [] when = "M" -> MINUTE
      [] when = "H" -> HOUR
      [] when \in {"D", "MIDNIGHT"} -> DAY
      [] OTHER -> WEEK

\* Whether the constructor raises ValueError for this (upper-cased) `when`.
InvalidWhen(when) ==
    IF when \in {"S", "M", "H", "D", "MIDNIGHT"} THEN FALSE
    ELSE IF StartsWithW(when) THEN DayOfWeek(when) < 0 \/ DayOfWeek(when) > 6
    ELSE TRUE

\* A deadline computed from the previous deadline instead of the current time.
computeRolloverFromDeadline(h, currentTime) ==
    IF h.rolloverAt = 0 THEN currentTime + h.interval ELSE h.rolloverAt + h.interval

\* computeRollover(currentTime): the first deadline after currentTime.
computeRollover(h, currentTime) ==
    IF h.when = "MIDNIGHT" \/ StartsWithW(h.when)
    THEN LET t == localtime(currentTime)
             r0 == DAY - ((t.hour * 60 + t.min) * 60 + t.sec)
             r == IF r0 < 0 THEN r0 + DAY ELSE r0
             currentDay == IF r0 < 0 THEN (t.wday + 1) % 7 ELSE t.wday
             result == currentTime + r
         IN  IF StartsWithW(h.when) /\ currentDay # h.dayOfWeek
             THEN LET daysToWait ==
                          IF currentDay < h.dayOfWeek
                          THEN h.dayOfWeek - currentDay
                          ELSE 6 - currentDay + h.dayOfWeek + 1
                  IN  result + daysToWait * DAY
             ELSE result
    ELSE currentTime + h.interval

\* The handler after lines 435-446: constructed on an open base file whose
\* modification time is mtime, then given the level and the suffix.
NewFileHandler(path, level, when, interval, backup_count, mtime) ==
    LET h0 == [ kind |-> "file",
                level |-> level,
                baseFilename |-> path,
                when |-> Upper(when),
                interval |-> UnitSeconds(Upper(when)) * interval,
                backupCount |-> backup_count,
                dayOfWeek |-> DayOfWeek(Upper(when)),
                suffix |-> SuffixSet,
                rolloverAt |-> 0,
                stream |-> TRUE ]
    IN  [h0 EXCEPT !.rolloverAt = computeRollover(h0, mtime)]

\* logging.StreamHandler() with the level set.
NewConsoleHandler(level) == [kind |-> "console", level |-> level]

(***************************************************************************)
(* The log directory.  fs is [files, archives].                            *)
(***************************************************************************)
NoFile == [exists |-> FALSE, lines |-> <<>>, mtime |-> 0]

\* open(path, 'a'): creates the file when it is absent.
OpenAppend(fs, path, t) ==
    IF fs.files[path].exists THEN fs
    ELSE [fs EXCEPT !.files[path] = [exists |-> TRUE, lines |-> <<>>, mtime |-> t]]

ArchivesOf(arch, base) == {a \in arch : a.base = base}

\* getFilesToDelete(): the archives of this base file whose timestamp the
\* handler's extMatch accepts, all but the backupCount last in sorted order.
getFilesToDelete(h, arch) ==
    LET result == {a \in ArchivesOf(arch, h.baseFilename) : extMatch(h.when, a.ts)}
    IN  IF Cardinality(result) < h.backupCount THEN {}
        ELSE {a \in result :
                Cardinality({b \in result : LexLess(a.ts, b.ts)}) >= h.backupCount}

\* The loop of doRollover that moves a deadline forward until it is later than
\* the current time (interval > 0).
RECURSIVE CatchUp(_, _, _)
CatchUp(newRolloverAt, currentTime, interval) ==
    IF newRolloverAt <= currentTime
    THEN CatchUp(newRolloverAt + interval, currentTime, interval)
    ELSE newRolloverAt

\* os.remove(dfn) when a file of that name exists.
RemoveIfExists(arch, base, dfn) == {a \in arch : ~(a.base = base /\ a.ts = dfn)}

\* rotate(source, dest) after the removal of dest: os.rename when the source exists.
rotate(fs, base, dfn) ==
    [ files |-> [fs.files EXCEPT ![base] = NoFile],
      archives |-> RemoveIfExists(fs.archives, base, dfn)
                   \cup (IF fs.files[base].exists
                         THEN {[base |-> base, ts |-> dfn, lines |-> fs.files[base].lines]}
                         ELSE {}) ]

\* if self.backupCount > 0: remove every file getFilesToDelete() names.
DeleteOld(h, fs) ==
    IF h.backupCount > 0
    THEN [fs EXCEPT !.archives = @ \ getFilesToDelete(h, @)]
    ELSE fs

\* The name of the archive doRollover makes: the suffix applied to the start
\* of the interval that ends at the deadline.
RolloverName(h) == strftime(h.suffix, localtime(h.rolloverAt - h.interval))

\* The loop that advances the deadline cannot end.
NeverCatchesUp(h, t) == computeRollover(h, t) <= t /\ h.interval <= 0

\* doRollover() at time t.  fault names the step that raises, if any.
\* Returns the handler, the directory and how the call ended:
\* "ok", "error" (an exception left doRollover) or "hung" (the loop that
\* advances the deadline never ends).
doRollover(h, fs, t, fault) ==
    IF fault = "rename" /\ fs.files[h.baseFilename].exists
    THEN [ h |-> [h EXCEPT !.stream = FALSE],
           fs |-> [fs EXCEPT !.archives =
                      RemoveIfExists(@, h.baseFilename, RolloverName(h))],
           outcome |-> "error" ]
    ELSE IF fault = "reopen"
    THEN [ h |-> [h EXCEPT !.stream = FALSE],
           fs |-> DeleteOld(h, rotate(fs, h.baseFilename, RolloverName(h))),
           outcome |-> "error" ]
    ELSE IF NeverCatchesUp(h, t)
    THEN [ h |-> [h EXCEPT !.stream = TRUE],
           fs |-> OpenAppend(DeleteOld(h, rotate(fs, h.baseFilename, RolloverName(h))),
                             h.baseFilename, t),
           outcome |-> "hung" ]
    ELSE [ h |-> [h EXCEPT !.stream = TRUE,
                           !.rolloverAt = CatchUp(computeRollover(h, t), t, h.interval)],
           fs |-> OpenAppend(DeleteOld(h, rotate(fs, h.baseFilename, RolloverName(h))),
                             h.baseFilename, t),
           outcome |-> "ok" ]

\* shouldRollover(record)
shouldRollover(h, t) == t >= h.rolloverAt

\* stream.write(msg + terminator) on the open base file.
WriteLine(fs, base, rec, t) ==
    [fs EXCEPT !.files[base].lines = Append(@, rec), !.files[base].mtime = t]

\* FileHandler.emit(record) after the rollover check: open the stream if it is
\* closed, then write.
FileHandlerEmit(roll, t, rec, fault) ==
    IF roll.outcome # "ok" THEN roll
    ELSE IF ~roll.h.stream /\ fault = "reopen"
    THEN [roll EXCEPT !.outcome = "error"]
    ELSE IF fault = "write"
    THEN [ h |-> [roll.h EXCEPT !.stream = TRUE],
           fs |-> OpenAppend(roll.fs, roll.h.baseFilename, t),
           outcome |-> "error" ]
    ELSE [ h |-> [roll.h EXCEPT !.stream = TRUE],
           fs |-> WriteLine(OpenAppend(roll.fs, roll.h.baseFilename, t),
                            roll.h.baseFilename, rec, t),
           outcome |-> "ok" ]

\* BaseRotatingHandler.emit(record): rollover if due, then FileHandler.emit;
\* any exception goes to handleError, which reports it on stderr and returns.
FileEmit(h, fs, t, rec, fault) ==
    IF shouldRollover(h, t)
    THEN FileHandlerEmit(doRollover(h, fs, t, fault), t, rec, fault)
    ELSE FileHandlerEmit([h |-> h, fs |-> fs, outcome |-> "ok"], t, rec, fault)

(***************************************************************************)
(* Loggers.                                                                *)
(***************************************************************************)
NoLogger == [exists |-> FALSE, level |-> 0, handlers |-> <<>>]

\* The loggers a record of `name` is handed to: the logger itself, then each
\* existing ancestor (a proper dotted prefix of the name), nearest first.
\* No logger of the program sets propagate to False.
RECURSIVE Chain(_, _)
Chain(lgs, name) ==
    IF name = <<>> THEN <<>>
    ELSE (IF name \in Names /\ lgs[name].exists THEN <<name>> ELSE <<>>)
         \o Chain(lgs, SubSeq(name, 1, Len(name) - 1))

\* Every (logger, handler index) callHandlers visits, in order.
RECURSIVE Work(_, _)
Work(lgs, chain) ==
    IF chain = <<>> THEN <<>>
    ELSE [i \in 1..Len(lgs[Head(chain)].handlers) |-> <<Head(chain), i>>]
         \o Work(lgs, Tail(chain))

\* A logger that was never given its level admits every record.
AlwaysEnabled(lgs, name, sev) == TRUE

\* Logger.isEnabledFor(level): the logger's own level, set by logger.setLevel(level).
isEnabledFor(lgs, name, sev) == sev >= lgs[name].level

\* The state of a call after handler i of logger n has returned r.
AfterHandler(st, n, i, r) ==
    [st EXCEPT !.loggers[n].handlers[i] = r.h,
               !.fs = r.fs,
               !.swallowed = @ + (IF r.outcome = "error" THEN 1 ELSE 0),
               !.outcome = IF r.outcome = "hung" THEN "hung" ELSE @]

\* Handler.handle(record) of handler i of logger n, when its level admits it.
Handle(st, n, i, sev, rec, t, fault, faultAt) ==
    IF sev < st.loggers[n].handlers[i].level THEN st
    ELSE IF st.loggers[n].handlers[i].kind = "console"
    THEN [st EXCEPT !.console = Append(@, rec)]
    ELSE AfterHandler(st, n, i,
             FileEmit(st.loggers[n].handlers[i], st.fs, t, rec,
                      IF st.loggers[n].handlers[i].baseFilename = faultAt
                      THEN fault ELSE "none"))

\* callHandlers: hand the record to each handler of the chain, in order.
RECURSIVE callHandlers(_, _, _, _, _, _, _)
callHandlers(st, work, sev, rec, t, fault, faultAt) ==
    IF work = <<>> \/ st.outcome = "hung" THEN st
    ELSE callHandlers(Handle(st, Head(work)[1], Head(work)[2], sev, rec, t, fault, faultAt),
                      Tail(work), sev, rec, t, fault, faultAt)

\* With no handler anywhere in the chain, logging.lastResort writes records of
\* WARNING and above to stderr.
Dispatch(st, work, sev, rec, t, fault, faultAt) ==
    IF work = <<>>
    THEN (IF sev >= WARNING THEN [st EXCEPT !.console = Append(@, rec)] ELSE st)
    ELSE callHandlers(st, work, sev, rec, t, fault, faultAt)

\* Logger.info / Logger.warning: the whole call, from the level check to the
\* last handler.
LoggerLog(st, name, sev, rec, t, fault, faultAt) ==
    IF ~isEnabledFor(st.loggers, name, sev) THEN st
    ELSE Dispatch(st, Work(st.loggers, Chain(st.loggers, name)), sev, rec, t, fault, faultAt)

(***************************************************************************)
(* The calls of the program.                                               *)
(***************************************************************************)
NoCall == [op |-> "start", name |-> <<>>, sev |-> 0, rec |-> 0, outcome |-> "returned",
           swallowed |-> 0, console_output |-> FALSE]

Init ==
    /\ now = StartTime
    /\ loggers = [n \in Names |-> NoLogger]
    /\ files = [p \in LogFiles |-> NoFile]
    /\ archives = {}
    /\ dirExists = FALSE
    /\ console = <<>>
    /\ nrec = 0
    /\ nticks = 0
    /\ last = NoCall

\* The program is stuck inside a call that never returns.
Hung == last.outcome = "hung"

\* A create_rotating_logger that adds to the handlers it finds.
KeptHandlers(old) == old

\* The handler list create_rotating_logger starts from: logger.handlers.clear().
ClearedHandlers(old) == <<>>

\* create_rotating_logger(name, LogFile(name), "logs", level, when, interval,
\* backup_count, console_output).  env is what the file system does:
\* "ok", "makedirs" (os.makedirs raises) or "open" (opening the base file raises).
create_rotating_logger(name, level, when, interval, backup_count, console_output, env) ==
    LET path == LogFile(name)
        call == [op |-> "create", name |-> name, sev |-> 0, rec |-> 0,
                 outcome |-> "returned", swallowed |-> 0,
                 console_output |-> console_output]
        raised == [call EXCEPT !.outcome = "raised"]
        start == ClearedHandlers(loggers[name].handlers)
        cleared == [loggers EXCEPT ![name] =
                       [exists |-> TRUE, level |-> level, handlers |-> start]]
        opened == OpenAppend([files |-> files, archives |-> archives], path, now)
        file_handler == NewFileHandler(path, level, when, interval, backup_count,
                                       opened.files[path].mtime)
        added == start \o <<file_handler>>
                 \o (IF console_output THEN <<NewConsoleHandler(level)>> ELSE <<>>)
    IN  /\ ~Hung
        /\ UNCHANGED <<now, archives, console, nrec, nticks>>
        /\ IF ~dirExists /\ env = "makedirs"
           THEN /\ loggers' = cleared
                /\ last' = raised
                /\ UNCHANGED <<files, dirExists>>
           ELSE IF env = "open"
           THEN /\ loggers' = cleared
                /\ dirExists' = TRUE
                /\ last' = raised
                /\ UNCHANGED files
           ELSE IF InvalidWhen(Upper(when))
           THEN /\ loggers' = cleared
                /\ dirExists' = TRUE
                /\ files' = opened.files
                /\ last' = raised
           ELSE /\ loggers' = [cleared EXCEPT ![name].handlers = added]
                /\ dirExists' = TRUE
                /\ files' = opened.files
                /\ last' = call

\* The state an emit leaves, written to the variables.
Returned(name, sev, r) ==
    /\ loggers' = r.loggers
    /\ files' = r.fs.files
    /\ archives' = r.fs.archives
    /\ console' = r.console
    /\ last' = [op |-> "emit", name |-> name, sev |-> sev, rec |-> nrec + 1,
                outcome |-> r.outcome, swallowed |-> r.swallowed,
                console_output |-> FALSE]

\* logger.info(...) / logger.warning(...) on the logger registered under name.
Emit(name, sev, fault, faultAt) ==
    /\ ~Hung
    /\ loggers[name].exists
    /\ nrec < MaxRecords
    /\ nrec' = nrec + 1
    /\ Returned(name, sev,
           LoggerLog([loggers |-> loggers,
                      fs |-> [files |-> files, archives |-> archives],
                      console |-> console, outcome |-> "returned", swallowed |-> 0],
                     name, sev, nrec + 1, now, fault, faultAt))
    /\ UNCHANGED <<now, dirExists, nticks>>

\* The clock moves on by d seconds between two calls.
Tick(d) ==
    /\ ~Hung
    /\ nticks < MaxTicks
    /\ nticks' = nticks + 1
    /\ now' = now + d
    /\ last' = [NoCall EXCEPT !.op = "tick"]
    /\ UNCHANGED <<loggers, files, archives, dirExists, console, nrec>>

(***************************************************************************)
(* Specifications.  Each draws the arguments of the calls from small sets. *)
(***************************************************************************)
Levels == {INFO, WARNING}

NextOver(names, whens, intervals, backups, consoles, envs, faults, deltas) ==
    \/ \E name \in names, level \in Levels, when \in whens, interval \in intervals,
          backup_count \in backups, console_output \in consoles, env \in envs :
          create_rotating_logger(name, level, when, interval, backup_count,
                                 console_output, env)
    \/ \E name \in names, sev \in Levels, fault \in faults, faultAt \in LogFiles :
          Emit(name, sev, fault, faultAt)
    \/ \E d \in deltas : Tick(d)

\* One sink, built and rebuilt with valid and invalid arguments on a file
\* system that may fail.
Next ==
    NextOver({<<"app">>}, {"S", "X"}, {3}, {1}, BOOLEAN, {"ok", "makedirs", "open"},
             {"none", "write"}, {3})

Spec == Init /\ [][Next]_vars

\* Two sinks, one the dotted child of the other.
NextHierarchy ==
    NextOver(Names, {"S"}, {3}, {1}, {TRUE}, {"ok"},
             {"none"}, {3})

SpecHierarchy == Init /\ [][NextHierarchy]_vars

\* One sink rotating on a fixed interval of seconds (test_rotation uses 3),
\* with valid and invalid intervals and emits that arrive on time or late.
NextInterval ==
    NextOver({<<"app">>}, {"S"}, {0, 3}, {1}, {FALSE}, {"ok"},
             {"none", "rename", "reopen"}, {1, 3})

SpecInterval == Init /\ [][NextInterval]_vars

\* One sink rotating on the calendar: daily at midnight (the default) or weekly.
NextCalendar ==
    NextOver({<<"app">>}, {"midnight", "W4", "W7"}, {1}, {1}, {FALSE}, {"ok"},
             {"none"}, {4 * MINUTE, DAY})

SpecCalendar == Init /\ [][NextCalendar]_vars

(***************************************************************************)
(* The properties checked.                                                 *)
(***************************************************************************)
FileHandlersOf(lg) == {i \in DOMAIN lg.handlers : lg.handlers[i].kind = "file"}
ConsoleHandlersOf(lg) == {i \in DOMAIN lg.handlers : lg.handlers[i].kind = "console"}

\* The sink of a logger: its file handler (the first, should there be several).
HasSink(lg) == FileHandlersOf(lg) # {}
SinkOf(lg) == lg.handlers[CHOOSE i \in FileHandlersOf(lg) : \A j \in FileHandlersOf(lg) : i <= j]

\* How many times a record stands in a sequence of lines.
Occurrences(lines, rec) == Cardinality({i \in DOMAIN lines : lines[i] = rec})

\* The files of the directory, base files and archives, that hold a record.
BaseFilesWith(rec) == {p \in LogFiles : files[p].exists /\ Occurrences(files[p].lines, rec) > 0}
ArchivesWith(rec) == {a \in archives : Occurrences(a.lines, rec) > 0}

\* The time a formatted %Y-%m-%d_%H-%M-%S timestamp stands for.
TimeOf(ts) == ts[1] * DAY + ts[2] * HOUR + ts[3] * MINUTE + ts[4] * SECOND

\* The step is an emit through logger n of a record the logger and its sink
\* admit, and no handler raised.
CleanEmit(n) ==
    /\ nrec' = nrec + 1
    /\ last'.name = n
    /\ HasSink(loggers[n])
    /\ last'.sev >= loggers[n].level
    /\ last'.sev >= SinkOf(loggers[n]).level
    /\ last'.swallowed = 0

\* C1: retention bound.  A sink with backup_count K > 0 never leaves more than
\* K archives of its base file in the directory: every rotation deletes the
\* older ones.
C1_RetentionBound ==
    \A n \in Names :
        HasSink(loggers[n]) /\ SinkOf(loggers[n]).backupCount > 0
        => Cardinality(ArchivesOf(archives, SinkOf(loggers[n]).baseFilename))
               <= SinkOf(loggers[n]).backupCount

\* C2: no silent loss.  When an emit of a record the sink admits has returned
\* normally, the record is in a file of the directory.
C2_NoSilentLoss ==
    ( /\ last.op = "emit"
      /\ last.outcome = "returned"
      /\ HasSink(loggers[last.name])
      /\ last.sev >= loggers[last.name].level
      /\ last.sev >= SinkOf(loggers[last.name]).level )
    => BaseFilesWith(last.rec) \cup ArchivesWith(last.rec) # {}

\* C3: no duplicate accumulation.  A logger with handlers has exactly one file
\* handler and at most one console handler; after a successful
\* create_rotating_logger it has one file handler, and one console handler
\* exactly when console_output was set; and no record stands twice in the
\* files or twice on the console.
C3_NoDuplicateHandlers ==
    /\ \A n \in Names :
          loggers[n].handlers # <<>>
          => /\ Cardinality(FileHandlersOf(loggers[n])) = 1
             /\ Cardinality(ConsoleHandlersOf(loggers[n])) <= 1
    /\ (last.op = "create" /\ last.outcome = "returned")
          => /\ Cardinality(FileHandlersOf(loggers[last.name])) = 1
             /\ Cardinality(ConsoleHandlersOf(loggers[last.name]))
                    = (IF last.console_output THEN 1 ELSE 0)
    /\ \A rec \in 1..nrec :
          /\ Occurrences(console, rec) <= 1
          /\ \A p \in LogFiles : Occurrences(files[p].lines, rec) <= 1

\* A logger rebuilt by a second successful call, after its first sink has
\* written a record.
C3_Witness ==
    /\ last.op = "create"
    /\ last.outcome = "returned"
    /\ files[LogFile(last.name)].lines # <<>>
    /\ Cardinality(FileHandlersOf(loggers[last.name])) = 1

\* C4: the archive a rotation makes is named by the deadline of that rotation.
C4_ArchiveNamedByDeadline ==
    [][\A n \in Names :
          CleanEmit(n) /\ now >= SinkOf(loggers[n]).rolloverAt
          => \A a \in ArchivesOf(archives', LogFile(n)) \ archives :
                 a.ts = strftime(SuffixSet, localtime(SinkOf(loggers[n]).rolloverAt))]_vars

\* What one emit through the sink of logger n does to the files of that sink.
C5_Step(n) ==
    LET h == SinkOf(loggers[n])
        base == h.baseFilename
    IN  IF now >= h.rolloverAt
        THEN /\ last'.outcome = "returned"
             /\ \E a \in ArchivesOf(archives', base) :
                    a.ts = RolloverName(h) /\ a.lines = files[base].lines
             /\ files'[base].lines = <<last'.rec>>
             /\ SinkOf(loggers'[n]).rolloverAt > now
        ELSE /\ ArchivesOf(archives', base) = ArchivesOf(archives, base)
             /\ files'[base].lines = Append(files[base].lines, last'.rec)

\* C5: lazy single catch-up.  Archives change only inside an emit; an emit that
\* finds the deadline passed returns after one rotation, with the old content
\* in an archive, its record alone in the fresh base file and the new deadline
\* later than the current time; an emit before the deadline does not rotate.
C5_LazySingleCatchUp ==
    [][/\ archives' # archives => nrec' = nrec + 1
       /\ \A n \in Names :
             CleanEmit(n) /\ files[LogFile(n)].exists => C5_Step(n)]_vars

\* C6: an emit below the level of the logger changes no file, no archive,
\* nothing on the console, and no handler (so no deadline).
C6_BelowThresholdNoOp ==
    [][(nrec' = nrec + 1 /\ last'.sev < loggers[last'.name].level)
       => UNCHANGED <<files, archives, console, loggers>>]_vars

\* An emit below the level of its logger, made when the deadline of the
\* logger's sink had passed.
C6_Witness ==
    /\ last.op = "emit"
    /\ last.sev < loggers[last.name].level
    /\ HasSink(loggers[last.name])
    /\ now >= SinkOf(loggers[last.name]).rolloverAt

\* C7: invalid policy parameters are rejected at construction.  A call that
\* returned has built a sink with a positive interval and a valid `when`, and
\* no later call hangs.
C7_InvalidPolicyRejected ==
    /\ (last.op = "create" /\ last.outcome = "returned")
          => /\ HasSink(loggers[last.name])
             /\ SinkOf(loggers[last.name]).interval > 0
             /\ ~InvalidWhen(SinkOf(loggers[last.name]).when)
    /\ ~Hung

\* C8: exactly one file per record.  No record stands in two files.
C8_ExactlyOneFile ==
    \A rec \in 1..nrec :
        Cardinality(BaseFilesWith(rec)) + Cardinality(ArchivesWith(rec)) <= 1

\* C9: idempotent-replacing construction.  A name that has a sink keeps a
\* sink through every call, also one that fails part-way.
C9_AlwaysOneCompleteSink ==
    [][\A n \in Names : HasSink(loggers[n]) => HasSink(loggers'[n])]_vars

\* C10 as stated: after a rotation of a fixed-interval sink the new deadline is
\* the old deadline plus the smallest multiple of the interval that puts it
\* after the current time.
C10_DeadlineOnGrid ==
    [][\A n \in Names :
          ( /\ CleanEmit(n)
            /\ SinkOf(loggers[n]).interval >= 1
            /\ now >= SinkOf(loggers[n]).rolloverAt )
          => SinkOf(loggers'[n]).rolloverAt
                 = CatchUp(SinkOf(loggers[n]).rolloverAt + SinkOf(loggers[n]).interval,
                           now, SinkOf(loggers[n]).interval)]_vars

\* C10 as the code has it: after a rotation of a fixed-interval sink the new
\* deadline is the time of the rotation plus the interval.
C10_DeadlineFromRotationTime ==
    [][\A n \in Names :
          ( /\ CleanEmit(n)
            /\ SinkOf(loggers[n]).interval >= 1
            /\ now >= SinkOf(loggers[n]).rolloverAt )
          => /\ SinkOf(loggers'[n]).rolloverAt = now + SinkOf(loggers[n]).interval
             /\ SinkOf(loggers'[n]).rolloverAt > now]_vars

\* A rotation made by an emit that came after its deadline: the archive is
\* named for a period that ended before the current time.
C10_Witness ==
    /\ last.op = "emit"
    /\ last.swallowed = 0
    /\ HasSink(loggers[last.name])
    /\ SinkOf(loggers[last.name]).interval >= 1
    /\ files[LogFile(last.name)].lines = <<last.rec>>
    /\ SinkOf(loggers[last.name]).rolloverAt = now + SinkOf(loggers[last.name]).interval
    /\ \E a \in ArchivesOf(archives, LogFile(last.name)) :
           TimeOf(a.ts) + SinkOf(loggers[last.name]).interval < now

====
